---- MODULE Spec2Model ----
(***************************************************************************)
(* The HNAP session client of custom_components/binary_sensor/dlink.py:    *)
(* HNAPClient.login, HNAPClient.call and HNAPClient.device_actions as      *)
(* coroutines that call each other, over a transport that may answer each  *)
(* request in any way.                                                     *)
(*                                                                         *)
(* Every coroutine invocation is a frame on the stack of the task that     *)
(* runs it.  A task runs without interruption until it awaits the          *)
(* transport (run_in_executor); `running` is the task that holds the event *)
(* loop.  Strings are sequences of tokens, None is the empty sequence.     *)
(***************************************************************************)
EXTENDS Integers, Sequences, FiniteSets, TLC

\* ------------------------------------------------------------- bounds

\* Frames one task may nest before Python raises RecursionError
\* (sys.getrecursionlimit(), scaled down).
RecursionLimit == 5

\* Top-level operations the caller issues in one run.
MaxOps == 3

\* The history counters saturate at this value.
MaxCount == 3

\* The clock reads 0..MaxClock (whole seconds).
MaxClock == 1

\* Answers the transport gets wrong in one run, where their number is limited.
MaxFaults == 1

\* The clock of the water sensor and its trigger times span 0..MaxDays days.
MaxDays == 1

\* State-update jobs the water sensor hands to hass in one run.
MaxJobs == 2

\* ------------------------------------------------------------- values

\* The tasks (coroutines of callers) that may share the client.
Tasks == {1, 2}

None == <<>>

\* The empty str, '' (None is not a str).
EmptyStr == <<"">>

\* Python truthiness of a str / list / None.
Truthy(s) == Len(s) > 0 /\ s # EmptyStr

ACTION_BASE_URL == <<"http://purenetworks.com/HNAP1/">>

Username == <<"Admin">>

Password == <<"secret">>

\* Passwords a client may be constructed with.
Passwords == {Password, <<"0000">>}

\* dlink_water_sensor.DEFAULT_TIMEOUT
DEFAULT_TIMEOUT == 35

\* timedelta.seconds counts within one day: 0 <= seconds < 3600*24.
DaySeconds == 86400

\* CONF_TIMEOUT: cv.positive_int, DEFAULT_TIMEOUT when not configured.
Timeouts == {1, DEFAULT_TIMEOUT}

\* Readings of datetime.now() and trigger times, in whole seconds: around the
\* start of a day, around the default timeout, and at the end of a day.
Times ==
  { d * DaySeconds + s :
      d \in 0 .. MaxDays,
      s \in {0, 1, DEFAULT_TIMEOUT, DEFAULT_TIMEOUT + 1, DaySeconds - 1} }

\* The action a caller asks for (GetLatestDetection, GetSystemLogs, ...).
TargetAction == "GetLatestDetection"

\* _hmac(key, message): HMAC-MD5, hex, upper case; kept symbolic, so that two
\* digests are equal exactly when key and message are.
Hmac(key, message) == <<"hmac(">> \o key \o <<",">> \o message \o <<")">>

\* str.lower() on the spellings a device may use for LoginResult.
Lower(s) ==
  CASE s = "SUCCESS" -> "success"
    [] s = "Success" -> "success"
    [] s = "FAILED" -> "failed"
    [] OTHER -> s

\* url.rfind('/'): index (from 0) of the last '/', -1 when there is none.
RECURSIVE RFind(_, _)
RFind(url, i) ==
  IF i = 0 THEN -1
  ELSE IF url[i] = "/" THEN i - 1
  ELSE RFind(url, i - 1)

\* device_actions._extract: url[url.rfind('/')+1:]
Extract(url) == SubSeq(url, RFind(url, Len(url)) + 2, Len(url))

\* list(map(_extract, actions.SOAPActions.children()))
RECURSIVE ExtractAll(_)
ExtractAll(urls) ==
  IF urls = <<>> THEN <<>>
  ELSE <<Extract(Head(urls))>> \o ExtractAll(Tail(urls))

\* ------------------------------------------------------------- transport

\* What the transport call of call._call_method may raise.
TransportExcs == {"ExpatError", "AttributeError", "HTTPError", "URLError", "TimeoutError"}

NoResp ==
  [kind |-> "none", exc |-> "", challenge |-> None, publicKey |-> None,
   cookie |-> None, result |-> "", urls |-> <<>>, val |-> ""]

ExcResp(e) == [NoResp EXCEPT !.kind = "exc", !.exc = e]

\* A parsed document with a 'body' element (an HTML page).
HtmlResp == [NoResp EXCEPT !.kind = "html"]

\* A parsed SOAP document without the fields the action's reader expects.
MalformedResp == [NoResp EXCEPT !.kind = "malformed"]

\* First-stage Login responses: LoginResponse.{Challenge, PublicKey, Cookie}.
\* str() of an element without text is ''.
ChallengeResponses ==
  { [NoResp EXCEPT !.kind = "ok", !.challenge = <<"ch1">>,
                   !.publicKey = <<"pk1">>, !.cookie = <<"ck1">>],
    [NoResp EXCEPT !.kind = "ok", !.challenge = <<"ch2">>,
                   !.publicKey = <<"pk2">>, !.cookie = EmptyStr] }

\* Second-stage Login responses: LoginResult.
LoginResults == {"success", "SUCCESS", "failed"}

ResultResponses == { [NoResp EXCEPT !.kind = "ok", !.result = r] : r \in LoginResults }

\* GetDeviceSettings responses: SOAPActions, a list of action URLs.
UrlA == <<"http:", "/", "/", "purenetworks.com", "/", "HNAP1", "/", "GetLatestDetection">>

UrlB == <<"GetMotionDetectorLogs">>

SettingsResponses ==
  { [NoResp EXCEPT !.kind = "ok", !.urls = u] : u \in {<<>>, <<UrlA>>, <<UrlA, UrlB>>} }

ValueResponses == { [NoResp EXCEPT !.kind = "ok", !.val = v] : v \in {"v1", "v2"} }

OkResponses(method, stage) ==
  CASE method = "Login" /\ stage = "request" -> ChallengeResponses
    [] method = "Login" -> ResultResponses
    [] method = "GetDeviceSettings" -> SettingsResponses
    [] OTHER -> ValueResponses

\* Everything the transport may do with one request.
Responses(method, stage) ==
  { ExcResp(e) : e \in TransportExcs } \cup {HtmlResp, MalformedResp}
    \cup OkResponses(method, stage)

\* A variant of HasBody that finds no 'body' element in any document.
NeverHasBody(res) == FALSE

\* 'body' in res (SimpleXMLElement.__contains__: a <body> tag in the document)
HasBody(res) == res.kind = "html"

\* resp.<Field> raises AttributeError when the tag is missing.
HasFields(res) == res.kind = "ok"

\* ------------------------------------------------------------- state

VARIABLES
  logged_in,    \* HNAPClient.logged_in
  actions,      \* HNAPClient.actions: [isNone, list]
  private_key,  \* HNAPClient._private_key
  cookie,       \* HNAPClient._cookie
  auth_token,   \* HNAPClient._auth_token
  timestamp,    \* HNAPClient._timestamp
  stack,        \* per task: the coroutine frames, outermost first
  result,       \* per task: what the frame that just finished returned or raised
  net,          \* per task: the transport request in flight and its answer
  running,      \* the task that holds the event loop, 0 when all are suspended
  now,          \* datetime.now().timestamp(), whole seconds
  callers,      \* the tasks that issue top-level operations
  opsLeft,      \* top-level operations the callers may still start
  op,           \* per task: history of the current top-level operation
  prev,         \* history of the last finished top-level operation
  hs,           \* how the login() that finished last ended
  password,     \* HNAPClient.password
  last,         \* the first-stage Login response delivered last
  faultsLeft,   \* answers the transport may still get wrong, -1: any number
  track,        \* the history variables that are kept: "op", "sent"
  kinds,        \* the operations the callers issue
  sent,         \* the invocation with an auth token handed to the transport last
  sensor        \* DlinkWaterSensor: _on, _timeout, jobs given to hass, last update

client == <<logged_in, actions, private_key, cookie, auth_token, timestamp>>

history == <<op, prev, hs>>

\* What no operation of the client changes.
fixed == <<callers, password, track, kinds, sensor>>

rest == <<fixed, last, faultsLeft, sent>>

vars == <<logged_in, actions, private_key, cookie, auth_token, timestamp,
          stack, result, net, running, now, callers, opsLeft, op, prev, hs,
          password, last, faultsLeft, track, kinds, sent, sensor>>

NoResult == [kind |-> "none", exc |-> "", msg |-> "", resp |-> NoResp, list |-> <<>>]

Returned(resp) == [NoResult EXCEPT !.kind = "ret", !.resp = resp]

ReturnedList(l) == [NoResult EXCEPT !.kind = "ret", !.list = l]

Raised(e, m) == [NoResult EXCEPT !.kind = "exc", !.exc = e, !.msg = m]

NoRequest == [method |-> "", stage |-> "", pw |-> None, Cookie |-> None, HNAP_AUTH |-> None]

Idle == [busy |-> FALSE, responded |-> FALSE, req |-> NoRequest, resp |-> NoResp]

NoOp ==
  [kind |-> "none", keyAtStart |-> FALSE, cacheAtStart |-> FALSE, fresh |-> FALSE,
   logins |-> 0, targetSends |-> 0, gds |-> 0, nResp |-> 0,
   allXport |-> TRUE, c3ok |-> TRUE, t1 |-> "none", restOk |-> TRUE,
   pre |-> FALSE, re |-> FALSE, badLogin |-> FALSE, serial |-> FALSE]

NoPrev == [kind |-> "none", clean |-> FALSE, gds |-> 0]

\* again: the token equals the one of the invocation before; same: so do the
\* private key, the action and the second it was derived from.
NoSent ==
  [key |-> None, action |-> "", sec |-> None, token |-> None, task |-> 0,
   again |-> FALSE, same |-> FALSE]

Frame(fn, method, stage, pw) ==
  [fn |-> fn, pc |-> "start", method |-> method, stage |-> stage, pw |-> pw]

\* DlinkWaterSensor.__init__; jobs counts the calls of hass.async_add_job, and
\* n, t, got tell of the last async_update: the clock it read, the trigger
\* time it got, and how latest_trigger() ended.
DlinkWaterSensor(timeout) ==
  [on |-> FALSE, timeout |-> timeout, jobs |-> 0, n |-> 0, t |-> 0, got |-> "none"]

\* HNAPClient.__init__
Init ==
  /\ logged_in = FALSE
  /\ actions = [isNone |-> TRUE, list |-> <<>>]
  /\ private_key = None
  /\ cookie = None
  /\ auth_token = None
  /\ timestamp = None
  /\ stack = [p \in Tasks |-> <<>>]
  /\ result = [p \in Tasks |-> NoResult]
  /\ net = [p \in Tasks |-> Idle]
  /\ running = 0
  /\ now = 0
  /\ callers = {1}
  /\ opsLeft = MaxOps
  /\ op = [p \in Tasks |-> NoOp]
  /\ prev = NoPrev
  /\ hs = "none"
  /\ password = Password
  /\ last = NoResp
  /\ faultsLeft = -1
  /\ track = {"op"}
  /\ kinds = {"call", "login", "device_actions"}
  /\ sent = NoSent
  /\ sensor = DlinkWaterSensor(DEFAULT_TIMEOUT)

\* ------------------------------------------------------------- helpers

Top(p) == stack[p][Len(stack[p])]

At(p, fn, pcs) ==
  /\ running \in {0, p}
  /\ stack[p] # <<>>
  /\ Top(p).fn = fn
  /\ Top(p).pc \in pcs

SetPc(stk, pc) == [stk EXCEPT ![Len(stk)].pc = pc]

Pop(stk) == SubSeq(stk, 1, Len(stk) - 1)

Inc(n) == IF n < MaxCount THEN n + 1 ELSE n

\* The history of the operations after a step, h when it is kept.
Recorded(h) == IF "op" \in track THEN h ELSE op

\* The top frame returns or raises r to the frame below it (or to the caller).
Finish(p, r) ==
  /\ stack' = [stack EXCEPT ![p] = Pop(@)]
  /\ result' = [result EXCEPT ![p] = r]
  /\ running' = IF Len(stack[p]) = 1 THEN 0 ELSE p

\* yield from <coroutine>: the top frame moves to pc and the new frame runs;
\* past the recursion limit the call raises RecursionError, which no handler
\* of call or login catches.
Invoke(p, pc, frame) ==
  IF Len(stack[p]) < RecursionLimit
  THEN /\ stack' = [stack EXCEPT ![p] = Append(SetPc(@, pc), frame)]
       /\ result' = [result EXCEPT ![p] = NoResult]
       /\ running' = p
  ELSE Finish(p, Raised("RecursionError", ""))

\* ------------------------------------------------------------- HNAPClient.call

\* A variant of NeedsLogin without the test on the method.
NeedsLoginAnyMethod(key, method) == ~Truthy(key)

\* if not self._private_key and method != 'Login'
NeedsLogin(key, method) == ~Truthy(key) /\ method # "Login"

\* A variant of Caught without the URLError clause.
CaughtWithoutURLError(exc) == exc \in {"AttributeError", "ExpatError", "HTTPError"}

\* the except clauses around the first attempt
Caught(exc) == exc \in {"AttributeError", "ExpatError", "HTTPError", "URLError"}

\* _update_nauth_token: the timestamp it leaves in self._timestamp
UpdatedTimestamp(key, ts, clock) ==
  IF ~Truthy(key) THEN ts ELSE <<ToString(clock)>>

\* A variant of UpdatedToken that derives a token once and keeps it for the
\* invocations that follow.
TokenDerivedOnce(key, tok, clock, action) ==
  IF ~Truthy(key) \/ Truthy(tok) THEN tok
  ELSE Hmac(key, <<ToString(clock), "\"">> \o ACTION_BASE_URL \o <<action, "\"">>)

\* A variant of UpdatedToken that leaves the timestamp out of the message.
TokenWithoutTimestamp(key, tok, clock, action) ==
  IF ~Truthy(key) THEN tok
  ELSE Hmac(key, <<"\"">> \o ACTION_BASE_URL \o <<action, "\"">>)

\* A variant of UpdatedToken that never derives a token.
KeptToken(key, tok, clock, action) == tok

\* _update_nauth_token: the token it leaves in self._auth_token
UpdatedToken(key, tok, clock, action) ==
  IF ~Truthy(key) THEN tok
  ELSE Hmac(key, <<ToString(clock), "\"">> \o ACTION_BASE_URL \o <<action, "\"">>)

\* _client: the http_headers of the SoapClient
CookieHeader(ck) == IF Truthy(ck) THEN <<"uid=">> \o ck ELSE None

AuthHeader(tok, ts) == IF Truthy(tok) THEN tok \o <<" ">> \o ts ELSE None

\* _call_method: derive the token, build the client, hand the request to the
\* executor and await it.  datetime.now() reads the time that has passed.
Send(p, pc) ==
  LET f == Top(p)
      tok == UpdatedToken(private_key, auth_token, now', f.method)
      ts == UpdatedTimestamp(private_key, timestamp, now')
  IN /\ now' \in now .. MaxClock
     /\ auth_token' = tok
     /\ timestamp' = ts
     /\ net' = [net EXCEPT ![p] =
                  [busy |-> TRUE, responded |-> FALSE, resp |-> NoResp,
                   req |-> [method |-> f.method, stage |-> f.stage, pw |-> f.pw,
                            Cookie |-> CookieHeader(cookie),
                            HNAP_AUTH |-> AuthHeader(tok, ts)]]]
     /\ stack' = [stack EXCEPT ![p] = SetPc(@, pc)]
     /\ result' = [result EXCEPT ![p] = NoResult]
     /\ running' = 0
     /\ op' = Recorded([op EXCEPT
                 ![p].targetSends = IF Len(stack[p]) = 1 THEN Inc(@) ELSE @,
                 ![p].gds = IF f.method = "GetDeviceSettings" THEN Inc(@) ELSE @])
     /\ sent' = IF "sent" \in track /\ Truthy(tok)
                THEN [key |-> private_key, action |-> f.method, sec |-> ts, token |-> tok,
                      task |-> p, again |-> tok = sent.token,
                      same |-> private_key = sent.key /\ f.method = sent.action
                                 /\ ts = sent.sec]
                ELSE sent
     /\ UNCHANGED <<logged_in, actions, private_key, cookie, fixed, last, faultsLeft,
                    opsLeft, prev, hs>>

\* call, lines 103-108: log in first when no login has been done, then the
\* first attempt.
CallStart(p) ==
  /\ At(p, "call", {"start"})
  /\ IF NeedsLogin(private_key, Top(p).method)
     THEN /\ Invoke(p, "prelogin", Frame("login", "", "", None))
          /\ op' = [op EXCEPT ![p].pre = @ \/ Len(stack[p]) = 1]
          /\ UNCHANGED <<client, net, now, rest, opsLeft, prev, hs>>
     ELSE Send(p, "await1")

\* call, line 108 after the login of line 105 returned
CallLoggedIn(p) ==
  /\ At(p, "call", {"prelogin"})
  /\ result[p].kind = "ret"
  /\ Send(p, "await1")

\* call, lines 108-122: the first attempt's outcome
CallAttempt1(p) ==
  /\ At(p, "call", {"await1"})
  /\ net[p].responded
  /\ LET r == net[p].resp
         again == IF r.kind = "exc" THEN Caught(r.exc) ELSE HasBody(r)
     IN /\ IF again
           THEN Invoke(p, "relogin", Frame("login", "", "", None))
           ELSE IF r.kind = "exc"
           THEN Finish(p, Raised(r.exc, ""))
           ELSE Finish(p, Returned(r))
        /\ op' = Recorded([op EXCEPT ![p].re = @ \/ (again /\ Len(stack[p]) = 1)])
  /\ net' = [net EXCEPT ![p].busy = FALSE]
  /\ UNCHANGED <<client, now, rest, opsLeft, prev, hs>>

\* call, line 123 after the login of line 122 returned
CallRelogged(p) ==
  /\ At(p, "call", {"relogin"})
  /\ result[p].kind = "ret"
  /\ Send(p, "await2")

\* call, line 123: the second attempt's outcome, whatever it is
CallAttempt2(p) ==
  /\ At(p, "call", {"await2"})
  /\ net[p].responded
  /\ LET r == net[p].resp
     IN IF r.kind = "exc"
        THEN Finish(p, Raised(r.exc, ""))
        ELSE Finish(p, Returned(r))
  /\ net' = [net EXCEPT ![p].busy = FALSE]
  /\ UNCHANGED <<client, now, rest, opsLeft, history>>

\* call, lines 105 and 122: login() raised, outside the try
CallPropagate(p) ==
  /\ At(p, "call", {"prelogin", "relogin"})
  /\ result[p].kind = "exc"
  /\ Finish(p, result[p])
  /\ UNCHANGED <<client, net, now, rest, opsLeft, history>>

\* ------------------------------------------------------------- HNAPClient.login

\* str(resp.LoginResult).lower() != 'success'
LoginRejected(resp) == Lower(resp.result) # "success"

\* A variant of NeedsDiscovery that fetches the list in every handshake.
AlwaysDiscover(acts) == TRUE

\* A variant of NeedsDiscovery that never fetches the list.
SkipDiscovery(acts) == FALSE

\* if not self.actions
NeedsDiscovery(acts) == ~Truthy(acts.list)

\* login() returns or raises r
LoginFinish(p, r) ==
  /\ Finish(p, r)
  /\ hs' = IF r.kind = "ret" THEN "ok"
           ELSE IF r.exc = "AuthenticationError" THEN "rejected"
           ELSE "failed"

LoginInvoke(p, pc, frame) ==
  /\ Invoke(p, pc, frame)
  /\ hs' = IF Len(stack[p]) < RecursionLimit THEN hs ELSE "failed"

\* login, lines 50-53
LoginStart(p) ==
  /\ At(p, "login", {"start"})
  /\ logged_in' = FALSE
  /\ LoginInvoke(p, "stage1", Frame("call", "Login", "request", None))
  /\ op' = Recorded([op EXCEPT ![p].logins = Inc(@)])
  /\ UNCHANGED <<actions, private_key, cookie, auth_token, timestamp, net, now,
                 rest, opsLeft, prev>>

\* A variant of PrivateKey that puts the password before the public key.
PrivateKeyPasswordFirst(publicKey, pw, challenge) == Hmac(pw \o publicKey, challenge)

\* login, line 61: _hmac(public_key + str(self.password), challenge)
PrivateKey(publicKey, pw, challenge) == Hmac(publicKey \o pw, challenge)

\* login, line 65: _hmac(self._private_key, challenge)
LoginPassword(key, challenge) == Hmac(key, challenge)

\* A variant of LoginStage1 that keeps the secrets of an earlier handshake.
LoginStage1KeepsFirst(p) ==
  /\ At(p, "login", {"stage1"})
  /\ result[p].kind = "ret"
  /\ LET r == result[p].resp
         key == PrivateKey(r.publicKey, password, r.challenge)
     IN IF HasFields(r)
        THEN /\ cookie' = IF Truthy(private_key) THEN cookie ELSE r.cookie
             /\ private_key' = IF Truthy(private_key) THEN private_key ELSE key
             /\ LoginInvoke(p, "stage2",
                            Frame("call", "Login", "login", LoginPassword(key, r.challenge)))
        ELSE /\ LoginFinish(p, Raised("AttributeError", ""))
             /\ UNCHANGED <<cookie, private_key>>
  /\ UNCHANGED <<logged_in, actions, auth_token, timestamp, net, now, rest, opsLeft,
                 op, prev>>

\* login, lines 55-68: read the challenge, derive the key, send the password
LoginStage1(p) ==
  /\ At(p, "login", {"stage1"})
  /\ result[p].kind = "ret"
  /\ LET r == result[p].resp
         key == PrivateKey(r.publicKey, password, r.challenge)
     IN IF HasFields(r)
        THEN /\ cookie' = r.cookie
             /\ private_key' = key
             /\ LoginInvoke(p, "stage2",
                            Frame("call", "Login", "login", LoginPassword(key, r.challenge)))
        ELSE /\ LoginFinish(p, Raised("AttributeError", ""))
             /\ UNCHANGED <<cookie, private_key>>
  /\ UNCHANGED <<logged_in, actions, auth_token, timestamp, net, now, rest, opsLeft,
                 op, prev>>

\* login, line 51: the first-stage call raised, outside the try
LoginStage1Raise(p) ==
  /\ At(p, "login", {"stage1"})
  /\ result[p].kind = "exc"
  /\ LoginFinish(p, result[p])
  /\ UNCHANGED <<client, net, now, rest, opsLeft, op, prev>>

\* login, lines 70-79: the second-stage result
LoginStage2(p) ==
  /\ At(p, "login", {"stage2"})
  /\ result[p].kind = "ret"
  /\ LET r == result[p].resp
     IN IF ~HasFields(r)
        THEN LoginFinish(p, Raised("AttributeError", "")) /\ UNCHANGED logged_in
        ELSE IF LoginRejected(r)
        THEN /\ LoginFinish(p, Raised("AuthenticationError", "Incorrect username or password"))
             /\ UNCHANGED logged_in
        ELSE IF NeedsDiscovery(actions)
        THEN /\ LoginInvoke(p, "discover", Frame("device_actions", "", "", None))
             /\ UNCHANGED logged_in
        ELSE /\ logged_in' = TRUE
             /\ LoginFinish(p, Returned(NoResp))
  /\ UNCHANGED <<actions, private_key, cookie, auth_token, timestamp, net, now,
                 rest, opsLeft, op, prev>>

\* login, lines 74 and 79: the action list arrived
LoginDiscovered(p) ==
  /\ At(p, "login", {"discover"})
  /\ result[p].kind = "ret"
  /\ actions' = [isNone |-> FALSE, list |-> result[p].list]
  /\ logged_in' = TRUE
  /\ LoginFinish(p, Returned(NoResp))
  /\ UNCHANGED <<private_key, cookie, auth_token, timestamp, net, now, rest,
                 opsLeft, op, prev>>

\* login, lines 64-77: something raised inside the try
LoginExcept(p) ==
  /\ At(p, "login", {"stage2", "discover"})
  /\ result[p].kind = "exc"
  /\ IF result[p].exc = "ExpatError"
     THEN LoginFinish(p, Raised("AuthenticationError", "Bad response from device"))
     ELSE LoginFinish(p, result[p])
  /\ UNCHANGED <<client, net, now, rest, opsLeft, op, prev>>

\* ------------------------------------------------------------- HNAPClient.device_actions

\* A variant of DeviceActionsStart that answers from self.actions when it is
\* not empty.
DeviceActionsFromCache(p) ==
  /\ At(p, "device_actions", {"start"})
  /\ IF Truthy(actions.list)
     THEN Finish(p, ReturnedList(actions.list))
     ELSE Invoke(p, "wait", Frame("call", "GetDeviceSettings", "", None))
  /\ UNCHANGED <<client, net, now, rest, opsLeft, history>>

\* device_actions, line 86
DeviceActionsStart(p) ==
  /\ At(p, "device_actions", {"start"})
  /\ Invoke(p, "wait", Frame("call", "GetDeviceSettings", "", None))
  /\ UNCHANGED <<client, net, now, rest, opsLeft, history>>

\* device_actions, line 87.  For a SOAPActions element without children,
\* children() gives either an empty sequence or None, depending on the
\* pysimplesoap release; map() over None raises TypeError.
DeviceActionsDone(p) ==
  /\ At(p, "device_actions", {"wait"})
  /\ result[p].kind = "ret"
  /\ LET r == result[p].resp
     IN IF HasFields(r)
        THEN \/ Finish(p, ReturnedList(ExtractAll(r.urls)))
             \/ r.urls = <<>> /\ Finish(p, Raised("TypeError", ""))
        ELSE Finish(p, Raised("AttributeError", ""))
  /\ UNCHANGED <<client, net, now, rest, opsLeft, history>>

\* device_actions, line 86: the call raised
DeviceActionsRaise(p) ==
  /\ At(p, "device_actions", {"wait"})
  /\ result[p].kind = "exc"
  /\ Finish(p, result[p])
  /\ UNCHANGED <<client, net, now, rest, opsLeft, history>>

\* ------------------------------------------------------------- environment

\* An answer other than the well-formed document the request asks for.
Faulty(r, method, stage) ==
  \/ r.kind # "ok"
  \/ method = "Login" /\ stage = "request" /\ ~Truthy(r.cookie)

\* How the answer to the first attempt of the caller's own call is classed.
ClassOf(r) ==
  CASE r.kind = "exc" /\ r.exc \in {"HTTPError", "URLError"} -> "xport"
    [] r.kind = "exc" -> "raise"
    [] r.kind = "html" -> "html"
    [] OTHER -> "plain"

\* The transport answers the request in flight, in any way.  The event loop
\* resumes the awaiting coroutines in the order in which their answers arrive
\* (run_in_executor completes its future through call_soon), so an answer is
\* taken to arrive once the answers before it have been handed over.
TransportRespond(p) ==
  /\ net[p].busy
  /\ ~net[p].responded
  /\ \A q \in Tasks \ {p} : ~(net[q].busy /\ net[q].responded)
  /\ \E r \in Responses(net[p].req.method, net[p].req.stage) :
       LET q == net[p].req
           faulty == Faulty(r, q.method, q.stage)
           first == Len(stack[p]) = 1 /\ Top(p).pc = "await1"
           xport == r.kind = "exc" /\ r.exc \in {"HTTPError", "URLError"}
           stage1 == q.method = "Login" /\ q.stage = "request"
           stage2 == q.method = "Login" /\ q.stage = "login"
           good == /\ r.kind = "ok"
                   /\ stage2 => r.result \in {"success", "SUCCESS"}
                   /\ q.method = "GetDeviceSettings" => r.urls # <<>>
           bad == (r.kind = "exc" /\ r.exc = "ExpatError") \/ r.kind \in {"html", "malformed"}
       IN /\ faulty => faultsLeft # 0
          /\ faultsLeft' = IF faulty /\ faultsLeft > 0 THEN faultsLeft - 1 ELSE faultsLeft
          /\ net' = [net EXCEPT ![p].responded = TRUE, ![p].resp = r]
          /\ op' = Recorded([op EXCEPT
                      ![p].nResp = Inc(@),
                      ![p].allXport = @ /\ xport,
                      ![p].c3ok = @ /\ (stage1 => r.kind = "ok")
                                    /\ (stage2 => r.kind = "ok" /\ r.result = "failed"),
                      ![p].t1 = IF first THEN ClassOf(r) ELSE @,
                      ![p].restOk = @ /\ (first \/ good),
                      ![p].badLogin = @ \/ (q.method = "Login" /\ bad)])
          /\ last' = IF stage1 /\ r.kind = "ok" THEN r ELSE last
  /\ UNCHANGED <<client, stack, result, running, now, fixed, opsLeft, prev, hs, sent>>

\* A caller starts call(TargetAction), login() or device_actions().
StartOp(p, kind) ==
  /\ p \in callers
  /\ kind \in kinds
  /\ running = 0
  /\ stack[p] = <<>>
  /\ opsLeft > 0
  /\ opsLeft' = opsLeft - 1
  /\ stack' = [stack EXCEPT ![p] =
                 <<Frame(kind, IF kind = "call" THEN TargetAction ELSE "", "", None)>>]
  /\ result' = [result EXCEPT ![p] = NoResult]
  /\ net' = [net EXCEPT ![p] = Idle]
  /\ running' = p
  /\ op' = [op EXCEPT ![p] =
              [NoOp EXCEPT !.kind = kind,
                           !.keyAtStart = Truthy(private_key),
                           !.cacheAtStart = Truthy(actions.list),
                           !.fresh = ~Truthy(private_key) /\ ~Truthy(cookie)
                                      /\ actions.isNone /\ ~logged_in,
                           !.serial = \E q \in callers \ {p} :
                                        /\ op[q].kind = "call" /\ stack[q] = <<>>
                                        /\ result[q].kind = "ret"]]
  /\ prev' = IF op[p].kind = "device_actions" /\ result[p].kind = "ret" /\ op[p].logins = 0
             THEN [kind |-> op[p].kind, clean |-> TRUE, gds |-> op[p].gds]
             ELSE NoPrev
  /\ UNCHANGED <<client, now, rest, hs>>

Next ==
  \/ \E p \in Tasks : \E kind \in {"call", "login", "device_actions"} : StartOp(p, kind)
  \/ \E p \in Tasks : CallStart(p)
  \/ \E p \in Tasks : CallLoggedIn(p)
  \/ \E p \in Tasks : CallAttempt1(p)
  \/ \E p \in Tasks : CallRelogged(p)
  \/ \E p \in Tasks : CallAttempt2(p)
  \/ \E p \in Tasks : CallPropagate(p)
  \/ \E p \in Tasks : LoginStart(p)
  \/ \E p \in Tasks : LoginStage1(p)
  \/ \E p \in Tasks : LoginStage1Raise(p)
  \/ \E p \in Tasks : LoginStage2(p)
  \/ \E p \in Tasks : LoginDiscovered(p)
  \/ \E p \in Tasks : LoginExcept(p)
  \/ \E p \in Tasks : DeviceActionsStart(p)
  \/ \E p \in Tasks : DeviceActionsDone(p)
  \/ \E p \in Tasks : DeviceActionsRaise(p)
  \/ \E p \in Tasks : TransportRespond(p)

Spec == Init /\ [][Next]_vars

\* Two tasks share the client without mutual exclusion (asyncio.gather of two
\* call coroutines on one HNAPClient): one call each, issued within the same
\* second, at any moment the event loop is free.
ConcInit ==
  /\ logged_in = FALSE
  /\ actions = [isNone |-> TRUE, list |-> <<>>]
  /\ private_key = None
  /\ cookie = None
  /\ auth_token = None
  /\ timestamp = None
  /\ stack = [p \in Tasks |-> <<>>]
  /\ result = [p \in Tasks |-> NoResult]
  /\ net = [p \in Tasks |-> Idle]
  /\ running = 0
  /\ now = MaxClock
  /\ callers = Tasks
  /\ opsLeft = Cardinality(Tasks)
  /\ op = [p \in Tasks |-> NoOp]
  /\ prev = NoPrev
  /\ hs = "none"
  /\ password = Password
  /\ last = NoResp
  /\ faultsLeft = MaxFaults
  /\ track = {"op", "sent"}
  /\ kinds = {"call"}
  /\ sent = NoSent
  /\ sensor = DlinkWaterSensor(DEFAULT_TIMEOUT)

ConcSpec == ConcInit /\ [][Next]_vars

\* One caller, a client constructed with any of the passwords, and a transport
\* that gets a limited number of answers wrong; the tokens sent are recorded.
KeyInit ==
  /\ logged_in = FALSE
  /\ actions = [isNone |-> TRUE, list |-> <<>>]
  /\ private_key = None
  /\ cookie = None
  /\ auth_token = None
  /\ timestamp = None
  /\ stack = [p \in Tasks |-> <<>>]
  /\ result = [p \in Tasks |-> NoResult]
  /\ net = [p \in Tasks |-> Idle]
  /\ running = 0
  /\ now = 0
  /\ callers = {1}
  /\ opsLeft = MaxOps
  /\ op = [p \in Tasks |-> NoOp]
  /\ prev = NoPrev
  /\ hs = "none"
  /\ password \in Passwords
  /\ last = NoResp
  /\ faultsLeft = MaxFaults
  /\ track = {"op", "sent"}
  /\ kinds = {"call", "login", "device_actions"}
  /\ sent = NoSent
  /\ sensor = DlinkWaterSensor(DEFAULT_TIMEOUT)

KeySpec == KeyInit /\ [][Next]_vars

\* ------------------------------------------------------------- DlinkWaterSensor

\* What no operation of the sensor changes.
hnap == <<logged_in, actions, private_key, cookie, auth_token, timestamp,
          stack, result, net, running, now, callers, opsLeft, op, prev, hs,
          password, last, faultsLeft, track, kinds, sent>>

\* (datetime.now() - last_trigger).seconds > self._timeout
HasTimedOut(n, t, timeout) == ((n - t) % DaySeconds) > timeout

\* A variant of Switched that hands a job to hass in every update.
SwitchedAlwaysNotifies(on, timedOut) == [on |-> ~timedOut, job |-> TRUE]

\* async_update, lines 102-109: the new _on, and whether a job is scheduled
Switched(on, timedOut) ==
  IF timedOut
  THEN IF on THEN [on |-> FALSE, job |-> TRUE] ELSE [on |-> on, job |-> FALSE]
  ELSE IF ~on THEN [on |-> TRUE, job |-> TRUE] ELSE [on |-> on, job |-> FALSE]

\* async_update, lines 92-99: latest_trigger() raises.  An Exception is caught
\* and logged, anything else (a BaseException) leaves async_update.
AsyncUpdateRaises(e) ==
  /\ sensor' = [sensor EXCEPT !.got = IF e = "Exception" THEN "caught" ELSE "propagated"]
  /\ UNCHANGED hnap

\* async_update, lines 92-99: latest_trigger() returns None
AsyncUpdateNoTrigger ==
  /\ sensor' = [sensor EXCEPT !.got = "nothing"]
  /\ UNCHANGED hnap

\* async_update, lines 92-109: latest_trigger() returns the time t and
\* datetime.now() reads n
AsyncUpdateTrigger(n, t) ==
  LET sw == Switched(sensor.on, HasTimedOut(n, t, sensor.timeout)) IN
  /\ n >= sensor.n
  /\ sw.job => sensor.jobs < MaxJobs
  /\ sensor' = [sensor EXCEPT !.on = sw.on,
                              !.jobs = IF sw.job THEN @ + 1 ELSE @,
                              !.n = n, !.t = t, !.got = "time"]
  /\ UNCHANGED hnap

\* A sensor with any of the timeouts, polled by hass; its client is idle.
WaterInit ==
  /\ logged_in = FALSE
  /\ actions = [isNone |-> TRUE, list |-> <<>>]
  /\ private_key = None
  /\ cookie = None
  /\ auth_token = None
  /\ timestamp = None
  /\ stack = [p \in Tasks |-> <<>>]
  /\ result = [p \in Tasks |-> NoResult]
  /\ net = [p \in Tasks |-> Idle]
  /\ running = 0
  /\ now = 0
  /\ callers = {}
  /\ opsLeft = 0
  /\ op = [p \in Tasks |-> NoOp]
  /\ prev = NoPrev
  /\ hs = "none"
  /\ password = Password
  /\ last = NoResp
  /\ faultsLeft = 0
  /\ track = {}
  /\ kinds = {}
  /\ sent = NoSent
  /\ sensor \in {DlinkWaterSensor(timeout) : timeout \in Timeouts}

WaterNext ==
  \/ \E e \in {"Exception", "BaseException"} : AsyncUpdateRaises(e)
  \/ AsyncUpdateNoTrigger
  \/ \E n, t \in Times : AsyncUpdateTrigger(n, t)

WaterSpec == WaterInit /\ [][WaterNext]_vars

\* ------------------------------------------------------------- properties

\* The top-level operation of task p has returned or raised to its caller.
Done(p) == op[p].kind # "none" /\ stack[p] = <<>>

\* The caller's own call frame has its first answer and has not yet acted on it.
Pending1(p) == Len(stack[p]) = 1 /\ Top(p).pc = "await1"

IncorrectPassword == Raised("AuthenticationError", "Incorrect username or password")

BadResponse == Raised("AuthenticationError", "Bad response from device")

\* C1 (as claimed): during one call on a client that holds session secrets, at
\* most one login() is entered and the target action is sent at most twice,
\* whatever the transport does.
C1_AtMostOneRelogin ==
  \A p \in Tasks :
    (op[p].kind = "call" /\ op[p].keyAtStart)
      => (op[p].logins <= 1 /\ op[p].targetSends <= 2)

\* C2 (as claimed): when the transport fails every invocation with URLError or
\* HTTPError, the caller of call receives that transport error.
C2_TransportErrorReachesCaller ==
  \A p \in Tasks :
    (Done(p) /\ op[p].kind = "call" /\ op[p].nResp > 0 /\ op[p].allXport)
      => (result[p].kind = "exc" /\ result[p].exc \in {"HTTPError", "URLError"})

\* C3: on a fresh client whose transport answers the first-stage Login normally
\* and every second-stage Login with a result that is not 'success', call of a
\* non-Login action enters login() once, never sends the target action, and
\* ends by raising AuthenticationError('Incorrect username or password').
C3_RejectedLoginRaisesOnce ==
  \A p \in Tasks :
    (op[p].kind = "call" /\ op[p].fresh /\ op[p].c3ok)
      => /\ op[p].logins <= 1
         /\ op[p].targetSends = 0
         /\ Done(p) => (result[p] = IncorrectPassword /\ op[p].logins = 1)

C3_Witness ==
  \E p \in Tasks :
    /\ Done(p) /\ op[p].kind = "call" /\ op[p].fresh /\ op[p].c3ok
    /\ op[p].nResp = 2
    /\ result[p] = IncorrectPassword

\* A finished call whose first attempt got a transport error and whose every
\* other transport invocation succeeded (a Login result of 'success' in any
\* case, a GetDeviceSettings answer that lists at least one action).
C4_Case(p) ==
  Done(p) /\ op[p].kind = "call" /\ op[p].t1 = "xport" /\ op[p].restOk

\* C4 (as claimed): in that case, on a fresh client as on an authenticated
\* one, login() ran exactly once and call returned the second attempt's value.
C4_OneLoginAnyClient ==
  \A p \in Tasks :
    C4_Case(p)
      => /\ op[p].logins = 1
         /\ op[p].targetSends = 2
         /\ result[p] = Returned(net[p].resp)

\* C4 (amended): in that case call returns the value of the second attempt of
\* the target action; login() ran exactly once when the client held a private
\* key at the start of the call, and exactly twice when it held none (once
\* before the first attempt, once after it failed).
C4_OneLoginIfKeyHeld ==
  \A p \in Tasks :
    C4_Case(p)
      => /\ op[p].logins = (IF op[p].keyAtStart THEN 1 ELSE 2)
         /\ op[p].targetSends = 2
         /\ net[p].req.method = TargetAction
         /\ net[p].resp.kind = "ok"
         /\ result[p] = Returned(net[p].resp)

C4_Witness ==
  \E p \in Tasks : C4_Case(p) /\ op[p].keyAtStart /\ op[p].logins = 1

\* C5 (as claimed): a first answer that is an HTML page is returned as it is,
\* with no login() and no second send; a well-formed answer without a 'body'
\* element is returned after exactly one send.
C5_HtmlReturnedAsIs ==
  \A p \in Tasks :
    (op[p].kind = "call" /\ op[p].t1 \in {"html", "plain"} /\ ~Pending1(p))
      => /\ ~op[p].re
         /\ op[p].targetSends = 1
         /\ Done(p)
         /\ result[p] = Returned(net[p].resp)

\* C5 (amended): a first answer that is an HTML page (it has a 'body' element)
\* makes call run login() and, when that login returns, send the action a
\* second time and return that second answer; a first answer without a 'body'
\* element is returned after exactly one send, with no login() after it.
C5_HtmlForcesRelogin ==
  \A p \in Tasks :
    (op[p].kind = "call" /\ ~Pending1(p))
      => /\ op[p].t1 = "html"
              => /\ op[p].re
                 /\ (Done(p) /\ result[p].kind = "ret")
                      => (op[p].targetSends = 2 /\ result[p] = Returned(net[p].resp))
         /\ op[p].t1 = "plain"
              => /\ ~op[p].re
                 /\ op[p].targetSends = 1
                 /\ Done(p)
                 /\ result[p] = Returned(net[p].resp)

C5_Witness ==
  \E p \in Tasks :
    /\ op[p].kind = "call" /\ op[p].t1 = "html" /\ Done(p)
    /\ result[p].kind = "ret" /\ op[p].targetSends = 2

\* C6 (as claimed, in the case it names): once login() has failed with
\* AuthenticationError, the target action is not handed to the transport
\* before another login() has finished.
C6_SendOnlyAfterGoodLogin ==
  \A p \in Tasks :
    (net[p].busy /\ net[p].req.method = TargetAction) => hs # "rejected"

\* A first-stage Login request is with the transport.
FirstStageInFlight(p) ==
  net[p].busy /\ net[p].req.method = "Login" /\ net[p].req.stage = "request"

\* C7 (as claimed): every first-stage Login request carries neither the Cookie
\* header nor the HNAP_AUTH header.
C7_FirstStageBare ==
  \A p \in Tasks :
    FirstStageInFlight(p) => (net[p].req.Cookie = None /\ net[p].req.HNAP_AUTH = None)

\* C7 (amended): the first-stage Login request carries no header when the
\* client holds no private key (the first handshake of a fresh client); in a
\* re-login, where login() has left the old secrets in place, it carries the
\* old cookie, unless that is the empty string, and an HNAP_AUTH token derived
\* from the old private key.
C7_FirstStageBareIffNoKey ==
  \A p \in Tasks :
    FirstStageInFlight(p)
      => IF private_key = None
         THEN net[p].req.Cookie = None /\ net[p].req.HNAP_AUTH = None
         ELSE /\ net[p].req.Cookie =
                   (IF cookie \in {None, EmptyStr} THEN None ELSE <<"uid=">> \o cookie)
              /\ net[p].req.HNAP_AUTH =
                   <<"hmac(">> \o private_key \o <<",">> \o timestamp
                     \o <<"\"", "http://purenetworks.com/HNAP1/", "Login", "\"", ")", " ">>
                     \o timestamp

C7_Witness ==
  \E p \in Tasks :
    FirstStageInFlight(p) /\ net[p].req.Cookie # None /\ net[p].req.HNAP_AUTH # None

\* The second of two consecutive device_actions() that both returned without
\* any login(), on a logged-in client.
C8_Case(p) ==
  /\ Done(p) /\ op[p].kind = "device_actions" /\ result[p].kind = "ret"
  /\ op[p].logins = 0
  /\ prev.kind = "device_actions" /\ prev.clean
  /\ logged_in

\* C8 (as claimed): the two invocations send GetDeviceSettings once in all.
C8_SecondFromCache ==
  \A p \in Tasks : C8_Case(p) => prev.gds + op[p].gds = 1

\* C8 (amended): each of the two invocations sends GetDeviceSettings once, and
\* the second returns the names extracted from its own answer: device_actions
\* never reads the cache that login() keeps in self.actions.
C8_EachInvocationFetches ==
  \A p \in Tasks :
    C8_Case(p)
      => /\ prev.gds = 1
         /\ op[p].gds = 1
         /\ net[p].req.method = "GetDeviceSettings"
         /\ result[p] = ReturnedList(ExtractAll(net[p].resp.urls))

C8_Witness ==
  \E p \in Tasks : C8_Case(p) /\ actions.list # result[p].list

\* C9 (as claimed): an operation in which login() ran and succeeded has sent
\* GetDeviceSettings, so that the cache holds a list fetched in that handshake.
C9_CacheRefetchedOnLogin ==
  \A p \in Tasks :
    (Done(p) /\ op[p].kind \in {"call", "login"} /\ result[p].kind = "ret"
       /\ op[p].logins >= 1)
      => op[p].gds >= 1

\* C9 (amended): the cache is not invalidated with the session.  login()
\* fetches the action list only when it finds the cache empty, so during a
\* call or a login() on a client whose cache is already non-empty no login(),
\* a re-login after a session-invalidation signal included, sends
\* GetDeviceSettings, and the list of the earlier handshake stays in place.
C9_CacheKeptAcrossLogins ==
  [][ \A p \in Tasks :
        (op[p].kind \in {"call", "login"} /\ op[p].cacheAtStart /\ stack[p] # <<>>)
          => /\ actions' = actions
             /\ ~(net'[p].busy /\ net'[p].req.method = "GetDeviceSettings") ]_vars

C9_Witness ==
  \E p \in Tasks :
    /\ Done(p) /\ op[p].kind = "call" /\ result[p].kind = "ret"
    /\ op[p].cacheAtStart /\ op[p].re /\ logged_in
    /\ op[p].gds = 0

\* C10 (as claimed): a login() in which some Login response was unparsable or
\* lacked the expected fields ends with AuthenticationError('Bad response from
\* device') and has entered no second handshake.
C10_BadLoginResponseIsAuthError ==
  \A p \in Tasks :
    (Done(p) /\ op[p].kind = "login" /\ op[p].badLogin)
      => (result[p] = BadResponse /\ op[p].logins = 1)

\* C11 (as claimed): no invocation carries the auth token of the invocation
\* before it, two invocations of the same action under the same private key
\* within one second included.
C11_TokenNeverReused == ~sent.again

\* C11 (amended): the token of an invocation is the HMAC, under the private key
\* held when it is sent, of the second of the clock read and the action, so
\* two invocations carry the same token exactly when private key, action and
\* second are the same: a repeat of an action within the second reuses the
\* token.
C11_TokenReusedOnlyWithinSecond ==
  sent # NoSent
    => /\ sent.token = <<"hmac(">> \o sent.key \o <<",">> \o sent.sec
                          \o <<"\"", "http://purenetworks.com/HNAP1/", sent.action, "\"", ")">>
       /\ sent.sec \in {<<ToString(t)>> : t \in 0 .. now}
       /\ sent.again <=> sent.same

C11_Witness ==
  /\ sent.again /\ sent.same
  /\ sent.action = TargetAction
  /\ \E p \in Tasks :
       net[p].busy /\ net[p].req.HNAP_AUTH = sent.token \o <<" ">> \o sent.sec

\* A second-stage Login request is with the transport.
SecondStageInFlight(p) ==
  net[p].busy /\ net[p].req.method = "Login" /\ net[p].req.stage = "login"

\* A login() of the caller in which the transport has answered every request
\* with the document asked for, the second stage with 'success'.
C12_Case(p) == op[p].kind = "login" /\ op[p].restOk /\ op[p].nResp > 0

\* C12: for every password, public key and challenge, such a login() stores
\* HMAC(publicKey + password, challenge) as the private key and the cookie of
\* the first-stage response, sends HMAC(privateKey, challenge) as the
\* LoginPassword of the second stage, and ends with logged_in true and the
\* cookie and private key of that first-stage response in place.
C12_HandshakeDerivesKeyAndLogsIn ==
  \A p \in Tasks :
    C12_Case(p)
      => LET key == <<"hmac(">> \o last.publicKey \o password \o <<",">>
                      \o last.challenge \o <<")">>
         IN /\ SecondStageInFlight(p)
                 => /\ private_key = key
                    /\ cookie = last.cookie
                    /\ net[p].req.pw = <<"hmac(">> \o key \o <<",">> \o last.challenge \o <<")">>
            /\ Done(p)
                 => /\ result[p].kind = "ret"
                    /\ logged_in
                    /\ private_key = key
                    /\ cookie = last.cookie

C12_Witness ==
  \E p \in Tasks :
    /\ C12_Case(p) /\ Done(p) /\ logged_in
    /\ password = <<"0000">>
    /\ private_key = <<"hmac(", "pk2", "0000", ",", "ch2", ")">>

\* No task is running and no answer waits to be handed to its coroutine.
Quiet == running = 0 /\ \A p \in Tasks : ~(net[p].busy /\ net[p].responded)

\* C13: two call coroutines on one fresh client can both find no private key
\* and both run a handshake (C13_Witness is such an interleaving); in every
\* interleaving the secrets in place are those of the first-stage response
\* that arrived last; and a call issued after another call has returned runs
\* no login() before its first attempt, and none at all when the transport
\* answers its requests as asked.
C13_RaceOnFreshClient ==
  /\ (Quiet /\ last # NoResp)
       => /\ private_key = <<"hmac(">> \o last.publicKey \o password \o <<",">>
                              \o last.challenge \o <<")">>
          /\ cookie = last.cookie
  /\ \A p \in Tasks :
       (op[p].kind = "call" /\ op[p].serial)
         => /\ ~op[p].pre
            /\ (op[p].restOk /\ op[p].t1 \in {"none", "plain"}) => op[p].logins = 0

\* Both tasks logged in at line 105, both second-stage requests are with the
\* transport, each with the password of its own challenge, and the private
\* key in place is the one of the response that arrived last.
C13_Witness ==
  \E p, q \in Tasks :
    /\ op[p].pre /\ op[q].pre
    /\ SecondStageInFlight(p) /\ SecondStageInFlight(q)
    /\ net[p].req.pw = <<"hmac(", "hmac(", "pk1", "secret", ",", "ch1", ")", ",", "ch1", ")">>
    /\ net[q].req.pw = <<"hmac(", "hmac(", "pk2", "secret", ",", "ch2", ")", ",", "ch2", ")">>
    /\ last.challenge = <<"ch2">>
    /\ private_key = <<"hmac(", "pk2", "secret", ",", "ch2", ")">>

\* A request is with the transport and has no answer yet.
InFlight(p) == net[p].busy /\ ~net[p].responded

\* C14 (as claimed): every request carries the Cookie header and the HNAP_AUTH
\* header together or neither, and it carries them exactly when the client
\* holds a private key.
C14_HeadersTogetherIffKey ==
  \A p \in Tasks :
    InFlight(p)
      => /\ (net[p].req.Cookie # None) <=> (net[p].req.HNAP_AUTH # None)
         /\ (net[p].req.HNAP_AUTH # None) <=> (private_key # None)

\* C15 (as claimed): when the login() that finished last raised
\* AuthenticationError, logged_in is false.
C15_RejectedLoginIsLoggedOut == hs = "rejected" => ~logged_in

\* C16 (as claimed): the LoginPassword of every second-stage Login handed to
\* the transport is derived from the challenge and the public key of the
\* first-stage response the client received last.
C16_PasswordFromLatestChallenge ==
  \A p \in Tasks :
    (InFlight(p) /\ net[p].req.method = "Login" /\ net[p].req.stage = "login")
      => net[p].req.pw =
           <<"hmac(", "hmac(">> \o last.publicKey \o password \o <<",">> \o last.challenge
             \o <<")", ",">> \o last.challenge \o <<")">>

\* C17: in every interleaving of two call coroutines, a request handed to the
\* transport with an HNAP_AUTH header is the request of the coroutine that
\* sends it, and the header holds the HMAC, under the private key stored at
\* that moment, of the second just read and of that request's action,
\* followed by that second.
C17_TokenDerivedAtSend ==
  [][ \A p \in Tasks :
        (net'[p] # net[p] /\ InFlight(p)' /\ net'[p].req.HNAP_AUTH # None)
          => /\ running \in {0, p}
             /\ net'[p].req.method = Top(p).method
             /\ private_key' = private_key
             /\ net'[p].req.HNAP_AUTH =
                  <<"hmac(">> \o private_key
                    \o <<",", ToString(now'), "\"", "http://purenetworks.com/HNAP1/",
                         net'[p].req.method, "\"", ")", " ", ToString(now')>> ]_vars

\* Two requests with an HNAP_AUTH header are with the transport at once, for
\* different actions, the older one with a token of a private key that has
\* been replaced since.
C17_Witness ==
  \E p, q \in Tasks :
    /\ InFlight(p) /\ InFlight(q)
    /\ net[p].req.HNAP_AUTH # None /\ net[q].req.HNAP_AUTH # None
    /\ net[p].req.method # net[q].req.method
    /\ sent.task = q
    /\ sent.key = private_key
    /\ SubSeq(net[p].req.HNAP_AUTH, 2, 7) # private_key

\* C18: with one caller that issues its operations one after another, whenever
\* logged_in is true the cookie and the private key are set, both come from
\* one first-stage Login response, and the actions cache is not None.
C18_LoggedInHasSession ==
  logged_in
    => /\ cookie # None
       /\ private_key # None
       /\ ~actions.isNone
       /\ \E r \in ChallengeResponses :
            /\ cookie = r.cookie
            /\ private_key = <<"hmac(">> \o r.publicKey \o password \o <<",">>
                               \o r.challenge \o <<")">>

\* logged_in is true while a later handshake has already received its
\* challenge and replaced the cookie and the key of the login that set it.
C18_Witness ==
  /\ logged_in
  /\ last # NoResp
  /\ cookie = last.cookie
  /\ \E p \in Tasks : \E i \in DOMAIN stack[p] :
       stack[p][i].fn = "login" /\ stack[p][i].pc = "stage2"

\* C19 (as claimed): after an update that got the trigger time t at clock n,
\* the sensor is on exactly when n - t <= timeout, whatever n - t is.
C19_OnIffWithinTimeout ==
  sensor.got = "time" => (sensor.on <=> sensor.n - sensor.t <= sensor.timeout)

\* C20: an update whose latest_trigger() raises or returns None changes
\* neither _on nor the number of jobs given to hass, and an update gives hass
\* a job, exactly one, only when it changes _on.
C20_JobOnlyOnChange ==
  [][ /\ sensor'.got # "time"
           => sensor'.on = sensor.on /\ sensor'.jobs = sensor.jobs
      /\ sensor'.jobs # sensor.jobs
           => sensor'.on # sensor.on /\ sensor'.jobs = sensor.jobs + 1 ]_vars

\* The sensor was switched on, a job was scheduled, and the update after it
\* failed with an exception that async_update caught.
C20_Witness == sensor.got = "caught" /\ sensor.on /\ sensor.jobs = 1

====
